---- MODULE Spec2Model ----
(***************************************************************************)
(* Model of the OpenGL raytracing engine: the SSBO scene buffer            *)
(* (shader.rs), the camera (camera.rs), and the three threads of main.rs   *)
(* (render thread, error-handling thread, event loop).                     *)
(*                                                                         *)
(* Units.  Buffer sizes are bytes.  Angles are in quarter turns (pi/2),    *)
(* delta times in quanta of pi/6 seconds, so that dt * rotation speed      *)
(* (3.0 rad/s) is dt quarter turns; positions are in units of the distance *)
(* moved in one quantum (5.0 * pi/6).                                      *)
(***************************************************************************)
EXTENDS Integers, Sequences, FiniteSets, TLC

(* ------------------------------ bounds --------------------------------- *)
\* largest record vector handed to the SSBO API in SpecSSBO
MaxRecords == 3
\* frames run in SpecCamera
MaxFrames == 2
\* parts of a model in SpecMesh
MaxParts == 3

(* ------------------------- record layout (repr(C)) --------------------- *)
SizeofF32 == 4
SizeofVec4 == 16
Align16 == 16

RoundUp(n, a) == ((n + a - 1) \div a) * a

\* a field is [size, align]; repr(C) places each field at the next multiple
\* of its alignment and rounds the total up to the struct's alignment
RECURSIVE EndOffset(_, _)
EndOffset(fields, from) ==
    IF fields = <<>> THEN from
    ELSE EndOffset(Tail(fields), RoundUp(from, Head(fields).align) + Head(fields).size)

StructSize(fields, align) == RoundUp(EndOffset(fields, 0), align)

\* the offsets of the fields, in declaration order
RECURSIVE FieldOffsets(_, _)
FieldOffsets(fields, from) ==
    IF fields = <<>> THEN <<>>
    ELSE LET at == RoundUp(from, Head(fields).align)
         IN  <<at>> \o FieldOffsets(Tail(fields), at + Head(fields).size)

F32Field == [size |-> SizeofF32, align |-> SizeofF32]
Vec4Field == [size |-> SizeofVec4, align |-> SizeofF32]

\* a native glm::Vec3 as a field: three f32, aligned as f32
Vec3NativeField == [size |-> 3 * SizeofF32, align |-> SizeofF32]

Vec3a16Fields == <<F32Field, F32Field, F32Field>>
Vec3a16Field == [size |-> StructSize(Vec3a16Fields, Align16), align |-> Align16]

RTMaterialFields == <<Vec4Field, Vec4Field, Vec4Field, F32Field>>
RTMaterialField == [size |-> StructSize(RTMaterialFields, Align16), align |-> Align16]

RTSphereFields == <<F32Field, Vec3a16Field, RTMaterialField>>
SizeofRTSphere == StructSize(RTSphereFields, Align16)

RTTriangleFields ==
    <<Vec3a16Field, Vec3a16Field, Vec3a16Field,
      Vec3a16Field, Vec3a16Field, Vec3a16Field, RTMaterialField>>
SizeofRTTriangle == StructSize(RTTriangleFields, Align16)

(* ------------------------------ util.rs -------------------------------- *)
\* size_of_val(&val[..])
byte_size_of_array(val) == Len(val) * SizeofRTSphere

\* &val[0]: indexing an empty slice panics
pointer_to_array(val) == IF Len(val) = 0 THEN "panic" ELSE "ptr"

(* ------------------------------ SSBO ----------------------------------- *)
\* The GL buffer object: bytes reserved by BufferData, the records stored in
\* them, the bytes written past the reserved end, and the storage block the
\* buffer is attached to.
NoBuffer == [size |-> 0, store |-> <<>>, oob |-> 0, block |-> "none"]

\* what an out-of-bounds copy_from can do: overwrite the memory behind the
\* mapping, or fault (the process is killed by the OS)
UBOutcomes == {"corrupt", "fault"}

\* RTSphere::new()
BlankRecord == 0

SSBOBuilder_new == [pid |-> 0, bid |-> 1, binding |-> 0, data |-> <<>>]

\* SSBOBuilder::set_data: BufferData reserves byte_size_of_array(data) bytes
\* and copies data; the builder itself is returned unchanged
SSBOBuilder_set_data(self, gl, data) ==
    IF pointer_to_array(data) = "panic"
    THEN [ok |-> FALSE, builder |-> self, gl |-> gl]
    ELSE [ok |-> TRUE, builder |-> self,
          gl |-> [gl EXCEPT !.size = byte_size_of_array(data), !.store = data]]

\* SSBOBuilder::set_shader_details: GetProgramResourceIndex returns
\* INVALID_INDEX for an unknown block name; the result is not inspected
SSBOBuilder_set_shader_details(self, gl, shader_pid, shader_binding, block_found) ==
    [ok |-> TRUE,
     builder |-> [self EXCEPT !.pid = shader_pid, !.binding = shader_binding],
     gl |-> [gl EXCEPT !.block = IF block_found THEN "bound" ELSE "invalid_index"]]

\* SSBOBuilder::link
SSBOBuilder_link(self) ==
    [pid |-> self.pid, bid |-> self.bid, binding |-> self.binding,
     data |-> self.data, data_size |-> 0]

Min(a, b) == IF a < b THEN a ELSE b

\* the records of the mapped buffer after copying `n` records of new_data to
\* its start
CopyInto(store, new_data, n) ==
    [i \in 1..Len(store) |-> IF i <= n THEN new_data[i] ELSE store[i]]

\* SSBO::update_data: maps the buffer and copies byte_size_of_array(new_data)
\* bytes into it
SSBO_update_data(self, gl, new_data, ub) ==
    LET new_data_size == byte_size_of_array(new_data)
        over == IF new_data_size > gl.size THEN new_data_size - gl.size ELSE 0
        fit == Min(Len(new_data), Len(gl.store))
    IN  IF pointer_to_array(new_data) = "panic"
        THEN [outcome |-> "panic", gl |-> gl]
        ELSE IF over = 0
        THEN [outcome |-> "ok",
              gl |-> [gl EXCEPT !.store = CopyInto(gl.store, new_data, fit)]]
        ELSE [outcome |-> ub,
              gl |-> [gl EXCEPT !.store = CopyInto(gl.store, new_data, fit),
                                !.oob = IF ub = "corrupt" THEN over ELSE 0]]

(* ------------------------------ camera.rs ------------------------------ *)
\* glm::pi() / 2.0, in quarter turns
HalfPi == 1
\* camera_move_speed (5.0), in position units per quantum of delta time
CameraMoveSpeed == 1
\* camera_rotation_speed (3.0 rad/s), in quarter turns per quantum
CameraRotationSpeed == 1

Zero3 == <<0, 0, 0>>
VAdd(a, b) == <<a[1] + b[1], a[2] + b[2], a[3] + b[3]>>
VSub(a, b) == <<a[1] - b[1], a[2] - b[2], a[3] - b[3]>>
VScale(a, k) == <<a[1] * k, a[2] * k, a[3] * k>>

Sgn(x) == IF x > 0 THEN 1 ELSE IF x < 0 THEN -1 ELSE 0

\* cosine and sine of k quarter turns
Cos4(k) == CASE k % 4 = 0 -> 1 [] k % 4 = 2 -> -1 [] OTHER -> 0
Sin4(k) == CASE k % 4 = 1 -> 1 [] k % 4 = 3 -> -1 [] OTHER -> 0

\* glm::rotation(angle, axis) for the three coordinate axes, as rows
RotationX(k) == << <<1, 0, 0>>, <<0, Cos4(k), -Sin4(k)>>, <<0, Sin4(k), Cos4(k)>> >>
RotationY(k) == << <<Cos4(k), 0, Sin4(k)>>, <<0, 1, 0>>, <<-Sin4(k), 0, Cos4(k)>> >>
RotationZ(k) == << <<Cos4(k), -Sin4(k), 0>>, <<Sin4(k), Cos4(k), 0>>, <<0, 0, 1>> >>
Identity3 == << <<1, 0, 0>>, <<0, 1, 0>>, <<0, 0, 1>> >>

MatMul3(a, b) ==
    [i \in 1..3 |-> [j \in 1..3 |->
        a[i][1] * b[1][j] + a[i][2] * b[2][j] + a[i][3] * b[3][j]]]

\* the sign of tan(fov / 2), fov in radians: tan(45.0) = 1.6197...,
\* tan(30.0) = -6.4053...
TanHalfSign(fov) == CASE fov = 90 -> 1 [] fov = 60 -> -1

\* the signs of the diagonal of glm::perspective(aspect, fov, near, far):
\* 1 / (aspect * tan(fov/2)), 1 / tan(fov/2), (far + near) / (near - far)
PerspectiveSigns(fov, near, far) ==
    <<TanHalfSign(fov), TanHalfSign(fov), Sgn((far + near) * (near - far))>>

\* view_transformation.column(j).xyz().normalize(): column j of
\* perspective * rotation * translation is the column of the rotation with its
\* rows scaled by the perspective diagonal; a column of a quarter-turn
\* rotation has one non-zero entry, so normalising keeps the signs only
BasisColumn(signs, rot, j) == [i \in 1..3 |-> Sgn(signs[i] * rot[i][j])]

\* Camera::new
Camera_new ==
    [aspect_ratio |-> "16/9", pos |-> Zero3, ang |-> Zero3, fov |-> 90,
     z_near |-> 1, z_far |-> 1000,
     view_transformation |-> [persp |-> <<>>, rot |-> Identity3, trans |-> <<>>],
     left |-> Zero3, up |-> Zero3, front |-> Zero3]

\* Camera::calculate_view_transformation; the matrix is kept as its three
\* factors: the perspective parameters, the rotation, and the position
\* subtracted from the fixed offset (0, 0, -5) in the translation
calculate_view_transformation(self) ==
    LET rotation_matrix ==
            MatMul3(MatMul3(RotationY(self.ang[2]), RotationX(self.ang[1])),
                    RotationZ(self.ang[3]))
        signs == PerspectiveSigns(self.fov, self.z_near, self.z_far)
    IN  [self EXCEPT
            !.view_transformation =
                [persp |-> <<self.aspect_ratio, self.fov, self.z_near, self.z_far>>,
                 rot |-> rotation_matrix,
                 trans |-> <<self.pos>>],
            !.left = BasisColumn(signs, rotation_matrix, 1),
            !.up = BasisColumn(signs, rotation_matrix, 2),
            !.front = BasisColumn(signs, rotation_matrix, 3)]

Some(x) == [some |-> TRUE, v |-> x]
None == [some |-> FALSE, v |-> 0]

\* Camera::set_vars
set_vars(self, position, angle, field_of_view, near_clipping_plane, far_clipping_plane) ==
    calculate_view_transformation(
        [self EXCEPT
            !.pos = IF position.some THEN position.v ELSE @,
            !.ang = IF angle.some THEN angle.v ELSE @,
            !.fov = IF field_of_view.some THEN field_of_view.v ELSE @,
            !.z_near = IF near_clipping_plane.some THEN near_clipping_plane.v ELSE @,
            !.z_far = IF far_clipping_plane.some THEN far_clipping_plane.v ELSE @])

\* Camera::set_view_params
set_view_params(self, position, angle, field_of_view, near_clipping_plane, far_clipping_plane) ==
    calculate_view_transformation(
        [self EXCEPT !.pos = position, !.ang = angle, !.fov = field_of_view,
                     !.z_near = near_clipping_plane, !.z_far = far_clipping_plane])

(* --------------------- main.rs: one frame of the camera ---------------- *)
\* one arm of the match on the held key; d is [movement, rotation]
KeyArm(cam, d, key, dt) ==
    CASE key = "A" -> [d EXCEPT !.movement = VSub(@, VScale(cam.left, dt * CameraMoveSpeed))]
      [] key = "D" -> [d EXCEPT !.movement = VAdd(@, VScale(cam.left, dt * CameraMoveSpeed))]
      [] key = "W" -> [d EXCEPT !.movement = VAdd(@, VScale(cam.front, dt * CameraMoveSpeed))]
      [] key = "S" -> [d EXCEPT !.movement = VSub(@, VScale(cam.front, dt * CameraMoveSpeed))]
      [] key = "Space" -> [d EXCEPT !.movement = VAdd(@, VScale(cam.up, dt * CameraMoveSpeed))]
      [] key = "LShift" -> [d EXCEPT !.movement = VSub(@, VScale(cam.up, dt * CameraMoveSpeed))]
      [] key = "Right" -> [d EXCEPT !.rotation[2] = @ + dt * CameraRotationSpeed]
      [] key = "Left" -> [d EXCEPT !.rotation[2] = @ - dt * CameraRotationSpeed]
      [] key = "Up" ->
            IF d.rotation[1] > -HalfPi
            THEN [d EXCEPT !.rotation[1] = @ - dt * CameraRotationSpeed]
            ELSE d
      [] key = "Down" ->
            IF d.rotation[1] < HalfPi
            THEN [d EXCEPT !.rotation[1] = @ + dt * CameraRotationSpeed]
            ELSE d
      [] OTHER -> d

\* for key in keys.iter() { match key { ... } }, from zero movement and rotation
RECURSIVE KeyLoop(_, _, _, _)
KeyLoop(cam, d, ks, dt) ==
    IF ks = <<>> THEN d ELSE KeyLoop(cam, KeyArm(cam, d, Head(ks), dt), Tail(ks), dt)

FrameDeltas(cam, ks, dt) ==
    KeyLoop(cam, [movement |-> Zero3, rotation |-> Zero3], ks, dt)

\* the results of arc_keys_renderthread.lock(): the guard, or a PoisonError
LockResults == {"Ok", "Err"}

\* a frame that reads the list out of the PoisonError as well
LockedDeltasIntoInner(cam, lk, ks, dt) == FrameDeltas(cam, ks, dt)

\* let mut movement = zero; let mut rotation = zero;
\* if let Ok( keys ) = arc_keys_renderthread.lock() { for key in keys.iter() ... }
LockedDeltas(cam, lk, ks, dt) ==
    IF lk = "Ok"
    THEN FrameDeltas(cam, ks, dt)
    ELSE [movement |-> Zero3, rotation |-> Zero3]

\* camera.set_vars( Some(pos + movement), Some(ang + rotation), None, None, None )
FrameCamera(cam, lk, ks, dt) ==
    LET d == LockedDeltas(cam, lk, ks, dt)
    IN  set_vars(cam, Some(VAdd(cam.pos, d.movement)), Some(VAdd(cam.ang, d.rotation)),
                 None, None, None)

(* ------------------------------ state ---------------------------------- *)
(* ------------------------------ mesh.rs -------------------------------- *)
\* A u32 is kept as its two 16-bit halves <<high, low>>.
Half == 65536

\* n as u32, for 0 <= n < 2^31
U32(n) == <<n \div Half, n % Half>>

\* a - b on u32: the wrapped difference, and whether it overflowed
U32Sub(a, b) ==
    LET lo == a[2] - b[2]
        hi == a[1] - b[1] - (IF lo < 0 THEN 1 ELSE 0)
    IN  [overflow |-> hi < 0, value |-> <<hi % Half, lo % Half>>]

\* overflow checks of the build: on (debug: the subtraction panics) or off
\* (release: it wraps)
Builds == {"debug", "release"}

\* start_index = triangles.len() as u32 - 1
NextStart(len) == U32Sub(U32(len), U32(1))

\* count: triangles.len() as u32 - start_index
MeshCount(len, start) == U32Sub(U32(len), start)

\* for i in 0..part.index_count/3 { triangles.push( triangle ) }: the triangles
\* of part number k, each kept as the number of its part
PartTriangles(index_count, k) == [j \in 1..(index_count \div 3) |-> k]

VARIABLES
    \* SSBO objects and the GL buffer behind them
    sb_stage,      \* SpecSSBO: how far the builder chain has got
    builder,       \* the SSBOBuilder
    ssbo,          \* the SSBO returned by link
    gl_buf,        \* the GL buffer object
    sb_last,       \* SpecSSBO: the last update_data call and its outcome
    \* shared between the threads of main
    keys,          \* Mutex<Vec<VirtualKeyCode>>: the held keys
    keys_lock,     \* owner of the keys mutex
    health,        \* RwLock<bool>: render_thread_healthy
    health_lock,   \* owner of the health lock
    \* event loop (main thread)
    cl_pc,
    cl_event,      \* the event the callback is handling
    control_flow,
    \* render thread
    rt_pc,
    rt_i,          \* position of keys.iter()
    rt_seen,       \* the keys the iteration has visited in this frame
    uni_count,     \* the spheresCount uniform
    rt_trace,      \* the steps the current iteration of the gameloop has done
    \* error-handling thread
    mon_pc,
    \* history
    refHeld,       \* the set obtained by applying the delivered events in order
    keys_before,   \* the key list when the callback took the lock
    cl_polls,      \* reads of the health flag in the current callback
    cl_began_unhealthy, \* the flag was false when the current callback began
    health_writes, \* writes of the health flag
    \* the render thread's camera (SpecCamera)
    cam_pc,
    camera,
    frames,        \* frames run so far
    cam_last,      \* the last frame: its keys, delta time and the camera before it
    \* Model::generate_raytracing_structs (SpecMesh)
    mesh_pc,
    build,         \* overflow checks on or off
    model_meshes,  \* self.meshes: the index_count of each part
    part_i,        \* position of the loop over self.meshes
    triangles,
    meshes,
    start_index

ssboVars == <<sb_stage, builder, ssbo, gl_buf, sb_last>>
sharedVars == <<keys, keys_lock, health, health_lock>>
clVars == <<cl_pc, cl_event, control_flow>>
rtVars == <<rt_pc, rt_i, rt_seen, uni_count, rt_trace>>
histVars == <<refHeld, keys_before, cl_polls, cl_began_unhealthy, health_writes>>
threadVars == <<sharedVars, clVars, rtVars, mon_pc, histVars>>

camVars == <<cam_pc, camera, frames, cam_last>>

meshVars == <<mesh_pc, build, model_meshes, part_i, triangles, meshes, start_index>>

vars == <<ssboVars, threadVars, camVars, meshVars>>

NoEvent == [type |-> "None", state |-> "None", key |-> "None"]

\* the record of the last frame before any frame has run
NoFrame == [lock |-> "Ok", keys |-> <<>>, dt |-> 0, before |-> Camera_new]

\* the camera in the specifications that do not follow it
CameraIdle ==
    /\ cam_pc = "unused" /\ camera = Camera_new /\ frames = 0 /\ cam_last = NoFrame

\* no model is converted outside SpecMesh
MeshIdle ==
    /\ mesh_pc = "unused" /\ build = "debug" /\ model_meshes = <<>> /\ part_i = 0
    /\ triangles = <<>> /\ meshes = <<>> /\ start_index = U32(0)

ThreadsIdle ==
    /\ keys = <<>> /\ keys_lock = "none" /\ health = TRUE /\ health_lock = "none"
    /\ cl_pc = "wait" /\ cl_event = NoEvent /\ control_flow = "Poll"
    /\ rt_pc = "init" /\ rt_i = 0 /\ rt_seen = <<>> /\ uni_count = 0 /\ rt_trace = <<>>
    /\ mon_pc = "join"
    /\ refHeld = {} /\ keys_before = <<>> /\ cl_polls = 0
    /\ cl_began_unhealthy = FALSE /\ health_writes = 0

(* --------------------------- SpecSSBO ---------------------------------- *)
\* a vector of n records, all carrying tag v
Fill(n, v) == [i \in 1..n |-> v]

RecordTags == {1, 2}

NoSSBO == [pid |-> 0, bid |-> 0, binding |-> 0, data |-> <<>>, data_size |-> 0]
NoCall == [len |-> 0, outcome |-> "none", before |-> NoBuffer]

SSBOInit ==
    /\ ThreadsIdle
    /\ MeshIdle
    /\ CameraIdle
    /\ sb_stage = "new"
    /\ builder = SSBOBuilder_new
    /\ ssbo = NoSSBO
    /\ gl_buf = NoBuffer
    /\ sb_last = NoCall

SSBOSetData ==
    /\ sb_stage = "new"
    /\ \E n \in 0..MaxRecords :
        LET r == SSBOBuilder_set_data(builder, gl_buf, Fill(n, BlankRecord))
        IN  /\ builder' = r.builder
            /\ gl_buf' = r.gl
            /\ sb_stage' = IF r.ok THEN "data" ELSE "panicked"
    /\ UNCHANGED <<meshVars, ssbo, sb_last, threadVars, camVars>>

SSBOSetShaderDetails ==
    /\ sb_stage = "data"
    /\ \E found \in BOOLEAN :
        LET r == SSBOBuilder_set_shader_details(builder, gl_buf, 1, 0, found)
        IN  /\ builder' = r.builder
            /\ gl_buf' = r.gl
    /\ sb_stage' = "details"
    /\ UNCHANGED <<meshVars, ssbo, sb_last, threadVars, camVars>>

SSBOLink ==
    /\ sb_stage = "details"
    /\ ssbo' = SSBOBuilder_link(builder)
    /\ sb_stage' = "linked"
    /\ UNCHANGED <<meshVars, builder, gl_buf, sb_last, threadVars, camVars>>

SSBOUpdateData ==
    /\ sb_stage = "linked"
    /\ \E m \in 0..MaxRecords, v \in RecordTags, ub \in UBOutcomes :
        LET r == SSBO_update_data(ssbo, gl_buf, Fill(m, v), ub)
        IN  /\ gl_buf' = r.gl
            /\ sb_last' = [len |-> m, outcome |-> r.outcome, before |-> gl_buf]
            /\ sb_stage' = CASE r.outcome = "panic" -> "panicked"
                             [] r.outcome = "fault" -> "faulted"
                             [] OTHER -> "linked"
    /\ UNCHANGED <<meshVars, builder, ssbo, threadVars, camVars>>

SSBONext == SSBOSetData \/ SSBOSetShaderDetails \/ SSBOLink \/ SSBOUpdateData

SpecSSBO == SSBOInit /\ [][SSBONext]_vars

(* --------------------------- SpecCamera -------------------------------- *)
\* The render thread's camera on its own: the frames of the gameloop applied
\* to held-key lists and delta times.  The key list of a frame holds each
\* key at most once.
CameraKeys == {"W", "D", "Right", "Up", "Down", "F1"}

\* the delta times of a frame, in quanta
DeltaTimes == {1, 2}

HeldLists ==
    {<<>>} \cup {<<a>> : a \in CameraKeys}
           \cup {s \in {<<a, b>> : a \in CameraKeys, b \in CameraKeys} : s[1] # s[2]}

CameraInit ==
    /\ sb_stage = "unused" /\ sb_last = NoCall
    /\ builder = SSBOBuilder_new /\ ssbo = NoSSBO /\ gl_buf = NoBuffer
    /\ ThreadsIdle
    /\ MeshIdle
    /\ cam_pc = "new" /\ camera = Camera_new /\ frames = 0 /\ cam_last = NoFrame

\* camera.set_view_params( zero, zero, 90.0, 1.0, 10.0 )
Cam_Setup ==
    /\ cam_pc = "new"
    /\ camera' = set_view_params(camera, Zero3, Zero3, 90, 1, 10)
    /\ cam_pc' = "running"
    /\ UNCHANGED <<meshVars, frames, cam_last, ssboVars, threadVars>>

\* one iteration of the gameloop: the key block and the camera update, for each
\* result lock() can return
Cam_Frame ==
    /\ cam_pc = "running"
    /\ frames < MaxFrames
    /\ \E lk \in LockResults, ks \in HeldLists, dt \in DeltaTimes :
        /\ camera' = FrameCamera(camera, lk, ks, dt)
        /\ cam_last' = [lock |-> lk, keys |-> ks, dt |-> dt, before |-> camera]
    /\ frames' = frames + 1
    /\ UNCHANGED <<meshVars, cam_pc, ssboVars, threadVars>>

CameraNext == Cam_Setup \/ Cam_Frame

SpecCamera == CameraInit /\ [][CameraNext]_vars

(* ------------------ camera.rs: the camera's public interface ----------- *)
\* A Camera from Camera::new under any sequence of calls of its two setters.
\* The planes never coincide in these arguments.
Positions == {Zero3, <<1, 0, 0>>}
Angles == {Zero3, <<1, 2, 3>>}
Fovs == {90, 60}
NearPlanes == {1, 20}
FarPlanes == {10}

Optional(S) == {None} \cup {Some(x) : x \in S}

NoCameraCall == [call |-> "none", args |-> <<>>, before |-> Camera_new]

CameraAPIInit ==
    /\ sb_stage = "unused" /\ sb_last = NoCall
    /\ builder = SSBOBuilder_new /\ ssbo = NoSSBO /\ gl_buf = NoBuffer
    /\ ThreadsIdle
    /\ MeshIdle
    /\ cam_pc = "api" /\ camera = Camera_new /\ frames = 0 /\ cam_last = NoCameraCall

\* camera.set_vars( position, angle, field_of_view, near, far )
API_SetVars ==
    /\ cam_pc = "api"
    /\ \E position \in Optional(Positions), angle \in Optional(Angles),
          field_of_view \in Optional(Fovs),
          near_clipping_plane \in Optional(NearPlanes),
          far_clipping_plane \in Optional(FarPlanes) :
        /\ camera' = set_vars(camera, position, angle, field_of_view,
                              near_clipping_plane, far_clipping_plane)
        /\ cam_last' = [call |-> "set_vars",
                        args |-> <<position, angle, field_of_view,
                                   near_clipping_plane, far_clipping_plane>>,
                        before |-> camera]
    /\ UNCHANGED <<meshVars, cam_pc, frames, ssboVars, threadVars>>

\* camera.set_view_params( position, angle, field_of_view, near, far )
API_SetViewParams ==
    /\ cam_pc = "api"
    /\ \E position \in Positions, angle \in Angles, field_of_view \in Fovs,
          near_clipping_plane \in NearPlanes, far_clipping_plane \in FarPlanes :
        /\ camera' = set_view_params(camera, position, angle, field_of_view,
                                     near_clipping_plane, far_clipping_plane)
        /\ cam_last' = [call |-> "set_view_params",
                        args |-> <<position, angle, field_of_view,
                                   near_clipping_plane, far_clipping_plane>>,
                        before |-> camera]
    /\ UNCHANGED <<meshVars, cam_pc, frames, ssboVars, threadVars>>

CameraAPINext == API_SetVars \/ API_SetViewParams

SpecCameraAPI == CameraAPIInit /\ [][CameraAPINext]_vars

(* ----------------------------- SpecMesh -------------------------------- *)
\* generate_raytracing_structs on the models of up to MaxParts parts.  A part
\* is its index_count; its indices are taken to be valid positions of its
\* vertices, normals and colors.
IndexCounts == {0, 3, 4, 6}

RECURSIVE SeqsUpTo(_, _)
SeqsUpTo(S, n) ==
    IF n = 0 THEN {<<>>}
    ELSE LET shorter == SeqsUpTo(S, n - 1)
         IN  shorter \cup {Append(q, x) : q \in shorter, x \in S}

MeshInit ==
    /\ sb_stage = "unused" /\ sb_last = NoCall
    /\ builder = SSBOBuilder_new /\ ssbo = NoSSBO /\ gl_buf = NoBuffer
    /\ ThreadsIdle
    /\ CameraIdle
    /\ mesh_pc = "loop"
    /\ build \in Builds
    /\ model_meshes \in SeqsUpTo(IndexCounts, MaxParts)
    /\ part_i = 1
    /\ triangles = <<>> /\ meshes = <<>> /\ start_index = U32(0)

\* one iteration of `for part in self.meshes`
Mesh_Part ==
    /\ mesh_pc = "loop"
    /\ part_i <= Len(model_meshes)
    /\ LET pushed == triangles \o PartTriangles(model_meshes[part_i], part_i)
           count == MeshCount(Len(pushed), start_index)
           next == NextStart(Len(pushed))
       IN  /\ triangles' = pushed
           /\ IF count.overflow /\ build = "debug"
              THEN /\ mesh_pc' = "panicked"
                   /\ UNCHANGED <<meshes, start_index, part_i>>
              ELSE /\ meshes' = Append(meshes, [start_index |-> start_index,
                                                count |-> count.value])
                   /\ IF next.overflow /\ build = "debug"
                      THEN /\ mesh_pc' = "panicked"
                           /\ UNCHANGED <<start_index, part_i>>
                      ELSE /\ start_index' = next.value
                           /\ part_i' = part_i + 1
                           /\ mesh_pc' = "loop"
    /\ UNCHANGED <<build, model_meshes, ssboVars, threadVars, camVars>>

\* ( triangles, meshes )
Mesh_Return ==
    /\ mesh_pc = "loop"
    /\ part_i > Len(model_meshes)
    /\ mesh_pc' = "returned"
    /\ UNCHANGED <<build, model_meshes, part_i, triangles, meshes, start_index,
                   ssboVars, threadVars, camVars>>

MeshNext == Mesh_Part \/ Mesh_Return

SpecMesh == MeshInit /\ [][MeshNext]_vars

(* ------------------------- main.rs: the threads ------------------------ *)
\* key codes the platform reports in this model
KeyCodes == {"W", "Up", "F1"}

KeyEvent(st, k) == [type |-> "KeyboardInput", state |-> st, key |-> k]
CloseRequested == [type |-> "CloseRequested", state |-> "None", key |-> "None"]
OtherEvent == [type |-> "Other", state |-> "None", key |-> "None"]

Events ==
    {CloseRequested, OtherEvent}
        \cup {KeyEvent(st, k) : st \in {"Pressed", "Released"}, k \in KeyCodes}

\* spheres_count
SpheresCount == 5

\* a frame that hands update_data one sphere more than were reserved
FrameSpheresOneMore == <<1, 2, 3, 4, 5, 6>>

\* the vec! of spheres main hands to update_data in every frame
FrameSpheres == <<1, 2, 3, 4, 5>>

\* Vec::contains, Iterator::position, Vec::remove
Contains(s, k) == \E i \in 1..Len(s) : s[i] = k
Position(s, k) == CHOOSE i \in 1..Len(s) : s[i] = k /\ \A j \in 1..(i - 1) : s[j] # k
Remove(s, i) == [j \in 1..(Len(s) - 1) |-> IF j < i THEN s[j] ELSE s[j + 1]]

\* the Pressed arm without its contains() test
KeyPressedUnchecked(ks, key_code) == Append(ks, key_code)

\* the Pressed arm of the keyboard handler
KeyPressed(ks, key_code) ==
    IF ~Contains(ks, key_code) THEN Append(ks, key_code) ELSE ks

\* the Released arm removing the last element instead of the one found
KeyReleasedPop(ks, key_code) ==
    IF Contains(ks, key_code) THEN SubSeq(ks, 1, Len(ks) - 1) ELSE ks

\* the Released arm of the keyboard handler
KeyReleased(ks, key_code) ==
    IF Contains(ks, key_code) THEN Remove(ks, Position(ks, key_code)) ELSE ks

\* the reference set: the ids whose last event was a press
ApplyToSet(held, e) ==
    IF e.type # "KeyboardInput" THEN held
    ELSE IF e.state = "Pressed" THEN held \cup {e.key}
    ELSE held \ {e.key}

\* a lock that is granted whoever holds it
MutexAlwaysFree(owner) == TRUE

\* Mutex::lock and RwLock::read / write succeed when no other thread holds
\* the lock
MutexFree(owner) == owner = "none"

\* the process runs until the event loop exits (after ControlFlow::Exit the
\* callback is not given another event of the platform) or a fault kills it
ProcessAlive == cl_pc # "exited" /\ rt_pc # "killed"

\* thread::spawn ... Arc::new(Mutex::new(Vec::with_capacity(10))) ...
\* Arc::new(RwLock::new(true))
MainInit ==
    /\ sb_stage = "unused" /\ sb_last = NoCall
    /\ builder = SSBOBuilder_new /\ ssbo = NoSSBO /\ gl_buf = NoBuffer
    /\ ThreadsIdle
    /\ CameraIdle
    /\ MeshIdle

(* ---- event loop ---- *)
\* the platform invokes the callback with an event; the callback starts by
\* setting ControlFlow::Wait
CL_Deliver ==
    /\ ProcessAlive
    /\ cl_pc = "wait"
    /\ \E e \in Events :
        /\ cl_event' = e
        /\ refHeld' = ApplyToSet(refHeld, e)
    /\ control_flow' = "Wait"
    /\ cl_pc' = "poll"
    /\ cl_polls' = 0
    /\ cl_began_unhealthy' = ~health
    /\ keys_before' = <<>>
    /\ UNCHANGED <<meshVars, camVars, ssboVars, sharedVars, rtVars, mon_pc, health_writes>>

\* render_thread_healthy.read()
CL_ReadLock ==
    /\ ProcessAlive
    /\ cl_pc = "poll"
    /\ MutexFree(health_lock)
    /\ health_lock' = "main"
    /\ cl_pc' = "check"
    /\ UNCHANGED <<meshVars, camVars, ssboVars, keys, keys_lock, health, cl_event, control_flow,
                   rtVars, mon_pc, histVars>>

\* the test on the flag negated
FlowAfterHealthNegated(flow, h) == IF h = TRUE THEN "Exit" ELSE flow

\* if *health == false { *control_flow = ControlFlow::Exit }
FlowAfterHealth(flow, h) == IF h = FALSE THEN "Exit" ELSE flow

\* a callback that re-arms the flag after reading it
CL_ReadHealthRearm ==
    /\ ProcessAlive
    /\ cl_pc = "check"
    /\ control_flow' = FlowAfterHealth(control_flow, health)
    /\ health' = TRUE
    /\ cl_polls' = cl_polls + 1
    /\ health_lock' = "none"
    /\ cl_pc' = "match"
    /\ UNCHANGED <<meshVars, camVars, ssboVars, keys, keys_lock, cl_event, rtVars, mon_pc,
                   refHeld, keys_before, cl_began_unhealthy, health_writes>>

\* a callback whose read guard on the flag lives to the end of the callback
CL_ReadHealthKeepGuard ==
    /\ ProcessAlive
    /\ cl_pc = "check"
    /\ control_flow' = FlowAfterHealth(control_flow, health)
    /\ cl_polls' = cl_polls + 1
    /\ cl_pc' = "match"
    /\ UNCHANGED <<meshVars, camVars, ssboVars, sharedVars, cl_event, rtVars, mon_pc,
                   refHeld, keys_before, cl_began_unhealthy, health_writes>>

CL_ReadHealth ==
    /\ ProcessAlive
    /\ cl_pc = "check"
    /\ control_flow' = FlowAfterHealth(control_flow, health)
    /\ cl_polls' = cl_polls + 1
    /\ health_lock' = "none"
    /\ cl_pc' = "match"
    /\ UNCHANGED <<meshVars, camVars, ssboVars, keys, keys_lock, health, cl_event, rtVars, mon_pc,
                   refHeld, keys_before, cl_began_unhealthy, health_writes>>

\* a close request that leaves the control flow as it is
CL_CloseIgnored ==
    /\ ProcessAlive
    /\ cl_pc = "match"
    /\ cl_event.type = "CloseRequested"
    /\ cl_pc' = "ret"
    /\ UNCHANGED <<meshVars, camVars, ssboVars, sharedVars, cl_event, control_flow, rtVars,
                   mon_pc, histVars>>

\* match event: CloseRequested
CL_Close ==
    /\ ProcessAlive
    /\ cl_pc = "match"
    /\ cl_event.type = "CloseRequested"
    /\ control_flow' = "Exit"
    /\ cl_pc' = "ret"
    /\ UNCHANGED <<meshVars, camVars, ssboVars, sharedVars, cl_event, rtVars, mon_pc, histVars>>

\* match event: KeyboardInput with a key code: arc_keys_mainthread.lock()
CL_LockKeys ==
    /\ ProcessAlive
    /\ cl_pc = "match"
    /\ cl_event.type = "KeyboardInput"
    /\ MutexFree(keys_lock)
    /\ keys_lock' = "main"
    /\ keys_before' = keys
    /\ cl_pc' = "update"
    /\ UNCHANGED <<meshVars, camVars, ssboVars, keys, health, health_lock, cl_event, control_flow,
                   rtVars, mon_pc, refHeld, cl_polls, cl_began_unhealthy,
                   health_writes>>

\* match key_state { Pressed => ..., Released => ... }
CL_Update ==
    /\ ProcessAlive
    /\ cl_pc = "update"
    /\ keys' = IF cl_event.state = "Pressed"
               THEN KeyPressed(keys, cl_event.key)
               ELSE KeyReleased(keys, cl_event.key)
    /\ cl_pc' = "unlock"
    /\ UNCHANGED <<meshVars, camVars, ssboVars, keys_lock, health, health_lock, cl_event,
                   control_flow, rtVars, mon_pc, histVars>>

\* the guard is dropped at the end of the if let block
CL_Unlock ==
    /\ ProcessAlive
    /\ cl_pc = "unlock"
    /\ keys_lock' = "none"
    /\ cl_pc' = "ret"
    /\ UNCHANGED <<meshVars, camVars, ssboVars, keys, health, health_lock, cl_event, control_flow,
                   rtVars, mon_pc, histVars>>

\* match event: any other event
CL_Default ==
    /\ ProcessAlive
    /\ cl_pc = "match"
    /\ cl_event.type = "Other"
    /\ cl_pc' = "ret"
    /\ UNCHANGED <<meshVars, camVars, ssboVars, sharedVars, cl_event, control_flow, rtVars, mon_pc,
                   histVars>>

\* the callback returns: the event loop exits the process on
\* ControlFlow::Exit and waits for the next event otherwise
CL_Return ==
    /\ ProcessAlive
    /\ cl_pc = "ret"
    /\ cl_pc' = IF control_flow = "Exit" THEN "exited" ELSE "wait"
    /\ UNCHANGED <<meshVars, camVars, ssboVars, sharedVars, cl_event, control_flow, rtVars, mon_pc,
                   histVars>>

ControlLoopStep ==
    \/ CL_ReadLock \/ CL_ReadHealth \/ CL_Close \/ CL_LockKeys \/ CL_Update
    \/ CL_Unlock \/ CL_Default \/ CL_Return

(* ---- render thread ---- *)
\* the states of the gameloop
RunningPcs == {"time", "lock", "iter", "camera", "uniform", "ssbo", "count",
               "draw", "swap"}

\* context, GL settings, camera, billboard, shader, settings, SSBO creation;
\* make_current().unwrap() and the shader builder can panic
RT_Init ==
    /\ ProcessAlive
    /\ rt_pc = "init"
    /\ \E fails \in BOOLEAN :
        LET d == SSBOBuilder_set_data(SSBOBuilder_new, gl_buf,
                                      Fill(SpheresCount, BlankRecord))
            sd == SSBOBuilder_set_shader_details(d.builder, d.gl, 1, 0, TRUE)
        IN  IF fails \/ ~d.ok
            THEN /\ rt_pc' = "panicked"
                 /\ UNCHANGED <<builder, ssbo, gl_buf>>
            ELSE /\ rt_pc' = "time"
                 /\ builder' = sd.builder
                 /\ gl_buf' = sd.gl
                 /\ ssbo' = SSBOBuilder_link(sd.builder)
    /\ UNCHANGED <<meshVars, camVars, sb_stage, sb_last, sharedVars, clVars, rt_i, rt_seen,
                   uni_count, rt_trace, mon_pc, histVars>>

\* elapsed and delta time
RT_Time ==
    /\ ProcessAlive
    /\ rt_pc = "time"
    /\ rt_pc' = "lock"
    /\ rt_seen' = <<>>
    /\ rt_trace' = <<"time">>
    /\ UNCHANGED <<meshVars, camVars, ssboVars, sharedVars, clVars, rt_i, uni_count, mon_pc,
                   histVars>>

\* arc_keys_renderthread.lock()
RT_LockKeys ==
    /\ ProcessAlive
    /\ rt_pc = "lock"
    /\ MutexFree(keys_lock)
    /\ keys_lock' = "render"
    /\ rt_i' = 1
    /\ rt_pc' = "iter"
    /\ UNCHANGED rt_trace
    /\ UNCHANGED <<meshVars, camVars, ssboVars, keys, health, health_lock, clVars, rt_seen,
                   uni_count, mon_pc, histVars>>

\* for key in keys.iter(): one key
RT_IterKey ==
    /\ ProcessAlive
    /\ rt_pc = "iter"
    /\ rt_i <= Len(keys)
    /\ rt_seen' = Append(rt_seen, keys[rt_i])
    /\ rt_i' = rt_i + 1
    /\ UNCHANGED rt_trace
    /\ UNCHANGED <<meshVars, camVars, ssboVars, sharedVars, clVars, rt_pc, uni_count, mon_pc,
                   histVars>>

\* a guard that outlives the key block
RT_UnlockKeysLate ==
    /\ ProcessAlive
    /\ rt_pc = "iter"
    /\ rt_i > Len(keys)
    /\ rt_i' = 0
    /\ rt_pc' = "camera"
    /\ rt_trace' = Append(rt_trace, "keys")
    /\ UNCHANGED <<meshVars, camVars, ssboVars, sharedVars, clVars, rt_seen, uni_count, mon_pc,
                   histVars>>

\* the iteration ends and the guard is dropped
RT_UnlockKeys ==
    /\ ProcessAlive
    /\ rt_pc = "iter"
    /\ rt_i > Len(keys)
    /\ keys_lock' = "none"
    /\ rt_i' = 0
    /\ rt_pc' = "camera"
    /\ rt_trace' = Append(rt_trace, "keys")
    /\ UNCHANGED <<meshVars, camVars, ssboVars, keys, health, health_lock, clVars, rt_seen,
                   uni_count, mon_pc, histVars>>

\* clear, activate the shader, camera.set_vars (the camera itself is followed
\* in SpecCamera)
RT_Camera ==
    /\ ProcessAlive
    /\ rt_pc = "camera"
    /\ rt_seen' = <<>>
    /\ rt_pc' = "uniform"
    /\ rt_trace' = Append(rt_trace, "camera")
    /\ UNCHANGED <<meshVars, camVars, ssboVars, sharedVars, clVars, rt_i, uni_count, mon_pc,
                   histVars>>

\* a gameloop that draws before it updates the buffer
RT_UniformThenDraw ==
    /\ ProcessAlive
    /\ rt_pc = "uniform"
    /\ rt_pc' = "draw"
    /\ rt_trace' = Append(rt_trace, "uniform")
    /\ UNCHANGED <<meshVars, camVars, ssboVars, sharedVars, clVars, rt_i, rt_seen, uni_count,
                   mon_pc, histVars>>

\* rtcamera.send_uniform
RT_Uniform ==
    /\ ProcessAlive
    /\ rt_pc = "uniform"
    /\ rt_pc' = "ssbo"
    /\ rt_trace' = Append(rt_trace, "uniform")
    /\ UNCHANGED <<meshVars, camVars, ssboVars, sharedVars, clVars, rt_i, rt_seen, uni_count,
                   mon_pc, histVars>>

\* ssbo.update_data( vec![ ... ] )
RT_UpdateSSBO ==
    /\ ProcessAlive
    /\ rt_pc = "ssbo"
    /\ \E ub \in UBOutcomes :
        LET r == SSBO_update_data(ssbo, gl_buf, FrameSpheres, ub)
        IN  /\ gl_buf' = r.gl
            /\ rt_pc' = CASE r.outcome = "panic" -> "panicked"
                          [] r.outcome = "fault" -> "killed"
                          [] OTHER -> "count"
            /\ rt_trace' = IF r.outcome \in {"panic", "fault"}
                           THEN rt_trace
                           ELSE Append(rt_trace, "update")
    /\ UNCHANGED <<meshVars, camVars, sb_stage, builder, ssbo, sb_last, sharedVars, clVars, rt_i,
                   rt_seen, uni_count, mon_pc, histVars>>

\* gl::Uniform1i( spheresCount, spheres_count )
RT_Count ==
    /\ ProcessAlive
    /\ rt_pc = "count"
    /\ uni_count' = SpheresCount
    /\ rt_pc' = "draw"
    /\ rt_trace' = Append(rt_trace, "count")
    /\ UNCHANGED <<meshVars, camVars, ssboVars, sharedVars, clVars, rt_i, rt_seen, mon_pc,
                   histVars>>

\* gl::DrawElements
RT_Draw ==
    /\ ProcessAlive
    /\ rt_pc = "draw"
    /\ rt_pc' = "swap"
    /\ rt_trace' = Append(rt_trace, "draw")
    /\ UNCHANGED <<meshVars, camVars, ssboVars, sharedVars, clVars, rt_i, rt_seen, uni_count,
                   mon_pc, histVars>>

\* a gameloop that breaks out and returns when the swap fails
RT_SwapOrBreak ==
    /\ ProcessAlive
    /\ rt_pc = "swap"
    /\ \E fails \in BOOLEAN :
        /\ rt_pc' = IF fails THEN "returned" ELSE "time"
        /\ rt_trace' = IF fails THEN rt_trace ELSE Append(rt_trace, "present")
    /\ UNCHANGED <<meshVars, camVars, ssboVars, sharedVars, clVars, rt_i, rt_seen, uni_count,
                   mon_pc, histVars>>

\* context.swap_buffers().unwrap()
RT_Swap ==
    /\ ProcessAlive
    /\ rt_pc = "swap"
    /\ \E fails \in BOOLEAN :
        /\ rt_pc' = IF fails THEN "panicked" ELSE "time"
        /\ rt_trace' = IF fails THEN rt_trace ELSE Append(rt_trace, "present")
    /\ UNCHANGED <<meshVars, camVars, ssboVars, sharedVars, clVars, rt_i, rt_seen, uni_count,
                   mon_pc, histVars>>

RenderStep ==
    \/ RT_Init \/ RT_Time \/ RT_LockKeys \/ RT_IterKey \/ RT_UnlockKeys
    \/ RT_Camera \/ RT_Uniform \/ RT_UpdateSSBO \/ RT_Count \/ RT_Draw
    \/ RT_Swap

(* ---- error-handling thread ---- *)
\* a join whose error is not noticed
JoinResultAlwaysOk(pc) == "Ok"

\* render_thread.join(): Err when the thread panicked, Ok when its closure
\* returned
JoinResult(pc) == IF pc = "panicked" THEN "Err" ELSE "Ok"

\* if !render_thread.join().is_ok()
Mon_Join ==
    /\ ProcessAlive
    /\ mon_pc = "join"
    /\ rt_pc \in {"panicked", "returned"}
    /\ mon_pc' = IF JoinResult(rt_pc) = "Err" THEN "wlock" ELSE "done"
    /\ UNCHANGED <<meshVars, camVars, ssboVars, sharedVars, clVars, rtVars, histVars>>

\* render_thread_watcher.write()
Mon_WriteLock ==
    /\ ProcessAlive
    /\ mon_pc = "wlock"
    /\ MutexFree(health_lock)
    /\ health_lock' = "monitor"
    /\ mon_pc' = "write"
    /\ UNCHANGED <<meshVars, camVars, ssboVars, keys, keys_lock, health, clVars, rtVars, histVars>>

\* println!; *health = false; the guard is dropped
Mon_Write ==
    /\ ProcessAlive
    /\ mon_pc = "write"
    /\ health' = FALSE
    /\ health_writes' = health_writes + 1
    /\ health_lock' = "none"
    /\ mon_pc' = "done"
    /\ UNCHANGED <<meshVars, camVars, ssboVars, keys, keys_lock, clVars, rtVars, refHeld,
                   keys_before, cl_polls, cl_began_unhealthy>>

MonitorStep == Mon_Join \/ Mon_WriteLock \/ Mon_Write

Next == CL_Deliver \/ ControlLoopStep \/ RenderStep \/ MonitorStep

Spec == MainInit /\ [][Next]_vars

\* the scheduler runs every thread that can take a step; the platform is
\* under no obligation to deliver an event
FairSpec == Spec /\ WF_vars(ControlLoopStep) /\ WF_vars(RenderStep) /\ WF_vars(MonitorStep)

(* ------------------------------ claims --------------------------------- *)
\* C1: update_data called with one record more than the capacity reserved at
\* creation is rejected before any byte is copied: the buffer contents are
\* unchanged and nothing is written past the reserved size.
C1_OverCapacityRejected ==
    (/\ sb_last.outcome # "none"
     /\ sb_last.before.size > 0
     /\ byte_size_of_array(Fill(sb_last.len, 1)) = sb_last.before.size + SizeofRTSphere)
        => (gl_buf.store = sb_last.before.store /\ gl_buf.oob = 0)

\* C2: in every state of the render loop the payload main passes to
\* update_data is no larger than the bytes set_data reserved, nothing is ever
\* written past them, and after the update of exactly SpheresCount records
\* the buffer holds those records.
C2_PayloadFitsReserved ==
    /\ rt_pc \in RunningPcs =>
        /\ byte_size_of_array(FrameSpheres) <= gl_buf.size
        /\ Len(FrameSpheres) = Len(gl_buf.store)
    /\ gl_buf.oob = 0
    /\ rt_pc # "killed"
    /\ rt_pc = "count" => gl_buf.store = FrameSpheres

C2_Witness == rt_pc = "count" /\ gl_buf.store = FrameSpheres /\ gl_buf.size = 5 * SizeofRTSphere

NoDup(s) == \A i, j \in 1..Len(s) : i # j => s[i] # s[j]
Range(s) == {s[i] : i \in 1..Len(s)}

\* C3: every key code is in the held-key list at most once; a press of a
\* held code and a release of a code that is not held leave the list as it
\* was.
C3_HeldAtMostOnce ==
    /\ NoDup(keys)
    /\ (cl_pc = "unlock" /\ cl_event.state = "Pressed"
            /\ Contains(keys_before, cl_event.key)) => keys = keys_before
    /\ (cl_pc = "unlock" /\ cl_event.state = "Released"
            /\ ~Contains(keys_before, cl_event.key)) => keys = keys_before

C3_Witness ==
    /\ cl_pc = "unlock" /\ cl_event.state = "Pressed"
    /\ Contains(keys_before, cl_event.key)
    /\ keys = <<cl_event.key>>

\* C4: once the callback has handled an event, the held-key list holds
\* exactly the codes whose last delivered event was a press: the reference
\* set obtained by applying the delivered events in order.
C4_HeldMatchesEvents ==
    cl_pc \in {"ret", "wait", "exited"} =>
        (Range(keys) = refHeld /\ Len(keys) = Cardinality(refHeld))

C4_Witness ==
    /\ cl_pc = "ret" /\ cl_event.state = "Released"
    /\ Len(keys_before) = 2 /\ keys_before[1] = cl_event.key
    /\ keys = <<keys_before[2]>>
    /\ refHeld = {keys_before[2]}

C5_Serialized ==
    /\ rt_pc = "iter" => (keys_lock = "render" /\ rt_seen = SubSeq(keys, 1, rt_i - 1))
    /\ cl_pc \in {"update", "unlock"} => keys_lock = "main"
    /\ cl_pc = "update" => keys = keys_before
    /\ cl_pc = "unlock" => Range(keys) = refHeld

\* C5: under every interleaving the key list changes only in the callback's
\* update while the callback holds the lock; the render thread iterates only
\* while it holds the lock, sees the list as it is, and never changes it; the
\* update applied under the lock is the one the event asks for.
C5_UpdatesNotLost ==
    /\ C5_Serialized
    /\ [][/\ C5_Serialized'
          /\ keys' # keys => (keys_lock = "main" /\ cl_pc = "update" /\ cl_pc' = "unlock")
          /\ rt_pc' # rt_pc \/ rt_i' # rt_i => keys' = keys]_vars

C5_Witness ==
    /\ rt_pc = "iter" /\ rt_i = 2 /\ Len(keys) = 2
    /\ cl_pc = "match" /\ cl_event.type = "KeyboardInput" /\ cl_event.state = "Released"
    /\ Contains(keys, cl_event.key)

C6_FlagWrites ==
    /\ health_writes <= 1
    /\ health = (health_writes = 0)
    /\ health_writes = 1 => rt_pc = "panicked"
    /\ (mon_pc = "done" /\ rt_pc = "panicked") => health_writes = 1
    /\ (mon_pc = "done" /\ rt_pc = "returned") => health_writes = 0

\* C6: after a panic of the render thread the error-handling thread writes
\* the flag once, from true to false; after a normal return it does not
\* write; nothing else writes the flag.
C6_MonitorWritesOnce ==
    /\ C6_FlagWrites
    /\ [][/\ C6_FlagWrites'
          /\ health' # health =>
                (mon_pc = "write" /\ mon_pc' = "done" /\ health = TRUE /\ health' = FALSE)
          /\ cl_pc' # cl_pc => health' = health]_vars

C6_Witness == mon_pc = "done" /\ rt_pc = "panicked" /\ health = FALSE /\ health_writes = 1

\* C7: once the flag is false it stays false.
C7_FlagMonotone == [][health = FALSE => health' = FALSE]_vars

C7_Witness == health = FALSE /\ cl_pc = "ret" /\ cl_began_unhealthy /\ mon_pc = "done"

\* C8: after the render thread has panicked, exit is eventually requested.
C8_ExitAfterPanic == (rt_pc = "panicked") ~> (control_flow = "Exit")

\* C9: a callback reads the flag exactly once, and a callback that begins
\* when the flag is false ends with exit requested, whatever its event.
C9_PollEveryIteration ==
    /\ cl_polls <= 1
    /\ cl_pc \in {"match", "update", "unlock", "ret"} => cl_polls = 1
    /\ (cl_pc \in {"match", "update", "unlock", "ret"} /\ cl_began_unhealthy)
            => control_flow = "Exit"

C9_Witness ==
    /\ cl_pc = "ret" /\ cl_began_unhealthy /\ cl_polls = 1
    /\ cl_event.type = "KeyboardInput" /\ control_flow = "Exit"

\* C10: after any frames the accumulated pitch is strictly between -pi/2 and
\* pi/2, and a frame whose pitch increment would reach a bound leaves the
\* pitch as it was.
C10_PitchInsideBounds ==
    cam_pc = "running" =>
        /\ -HalfPi < camera.ang[1] /\ camera.ang[1] < HalfPi
        /\ LET asked == cam_last.before.ang[1] + LockedDeltas(cam_last.before, cam_last.lock, cam_last.keys, cam_last.dt).rotation[1]
           IN  (frames > 0 /\ (asked >= HalfPi \/ asked <= -HalfPi))
                   => camera.ang[1] = cam_last.before.ang[1]

\* C11: a frame whose lock() on the held keys fails has zero movement and
\* rotation whatever keys are in the list, leaves the camera's position and
\* orientation as they were, and leaves the gameloop running.
C11_FailedLockFrameIsIdle ==
    (frames > 0 /\ cam_last.lock = "Err") =>
        /\ LockedDeltas(cam_last.before, cam_last.lock, cam_last.keys, cam_last.dt)
               = [movement |-> Zero3, rotation |-> Zero3]
        /\ camera.pos = cam_last.before.pos
        /\ camera.ang = cam_last.before.ang
        /\ cam_pc = "running"

C11_Witness ==
    /\ frames > 0 /\ cam_last.lock = "Err"
    /\ cam_last.keys = <<"W", "Right">>
    /\ camera.pos = cam_last.before.pos /\ camera.ang = cam_last.before.ang
    /\ FrameDeltas(cam_last.before, cam_last.keys, cam_last.dt).movement # Zero3

\* the stored transform and basis vectors are the derivation from the stored
\* position, orientation, field of view and planes
Derived(cam) == cam = calculate_view_transformation(cam)

\* C12: in every state of a Camera from Camera::new onward the stored
\* transform and basis vectors are the ones derived from the stored
\* properties, and so set_vars with every argument None leaves the camera
\* as it is.
C12_DerivedStateConsistent ==
    cam_pc = "api" =>
        /\ Derived(camera)
        /\ set_vars(camera, None, None, None, None, None) = camera

\* the value a property has after set_vars was given arg for it
Overwritten(arg, old) == IF arg.some THEN arg.v ELSE old

\* C13: set_vars stores exactly the arguments that are Some and leaves the
\* properties whose argument is None as they were; a call that gives only
\* the position leaves the orientation, the field of view, the planes and
\* the basis vectors as they were before the call.
C13_SetVarsOverwritesOnlyGiven ==
    cam_last.call = "set_vars" =>
        LET a == cam_last.args
            b == cam_last.before
        IN  /\ camera.pos = Overwritten(a[1], b.pos)
            /\ camera.ang = Overwritten(a[2], b.ang)
            /\ camera.fov = Overwritten(a[3], b.fov)
            /\ camera.z_near = Overwritten(a[4], b.z_near)
            /\ camera.z_far = Overwritten(a[5], b.z_far)
            /\ (a[1].some /\ a[2] = None /\ a[3] = None /\ a[4] = None /\ a[5] = None)
                    => /\ camera.left = b.left
                       /\ camera.up = b.up
                       /\ camera.front = b.front

\* C14: when the shader program has no storage block of the given name,
\* creating the buffer fails: the builder chain never gets to return an SSBO
\* for a buffer whose block index is GL_INVALID_INDEX.
C14_MissingBlockIsFatal ==
    gl_buf.block = "invalid_index" =>
        /\ sb_stage \notin {"linked", "faulted"}
        /\ ssbo = NoSSBO

\* C17: the SSBO that link returns records the capacity reserved by set_data:
\* its data_size is the byte size of the reserved store, or its data holds as
\* many records as were reserved.
C17_CapacityRecorded ==
    (sb_stage = "linked" /\ sb_last = NoCall) =>
        \/ ssbo.data_size = gl_buf.size
        \/ Len(ssbo.data) = Len(gl_buf.store)

\* the state of the render worker that a position of the render thread is in
Phase(pc) ==
    CASE pc = "init" -> "Initializing"
      [] pc \in RunningPcs -> "Running"
      [] OTHER -> "Terminated"

\* C15: the render thread goes from Initializing to Running to Terminated:
\* the gameloop runs only on the SSBO the setup created, no step leads back
\* to Initializing, the thread ends only by a panic and never by returning,
\* and after it has ended nothing of the render thread changes any more.
C15_WorkerLifecycle ==
    /\ rt_pc # "returned"
    /\ [][/\ rt_pc' # "returned"
          /\ Phase(rt_pc') = "Initializing" => Phase(rt_pc) = "Initializing"
          /\ Phase(rt_pc') = "Running" => ssbo' # NoSSBO
          /\ Phase(rt_pc) = "Running" => ssbo' = ssbo
          /\ (Phase(rt_pc') = "Terminated" /\ rt_pc' # rt_pc) => rt_pc' = "panicked"
          /\ Phase(rt_pc) = "Terminated" => UNCHANGED <<rtVars, ssbo, gl_buf>>]_vars

C15_Witness ==
    /\ rt_pc = "panicked" /\ uni_count = SpheresCount
    /\ rt_trace = <<"time", "keys", "camera", "uniform", "update", "count", "draw">>

\* C16: a callback that handles CloseRequested ends with exit requested and
\* makes the event loop exit, whatever the health flag and the held keys are,
\* and none of its steps changes the held keys or the health flag.
C16_CloseRequestsExit ==
    /\ (cl_pc = "ret" /\ cl_event.type = "CloseRequested") => control_flow = "Exit"
    /\ [][/\ (cl_pc' = "ret" /\ cl_event'.type = "CloseRequested")
                => control_flow' = "Exit"
          /\ (cl_pc = "ret" /\ cl_event.type = "CloseRequested" /\ cl_pc' # cl_pc)
                => cl_pc' = "exited"
          /\ (cl_event'.type = "CloseRequested" /\ cl_pc' # cl_pc)
                => (keys' = keys /\ health' = health)]_vars

C16_Witness ==
    /\ cl_pc = "exited" /\ cl_event.type = "CloseRequested"
    /\ health = TRUE /\ ~cl_began_unhealthy /\ keys # <<>>

\* the steps of one iteration of the gameloop, in order
FrameOrder ==
    <<"time", "keys", "camera", "uniform", "update", "count", "draw", "present">>

IsPrefix(s, t) == Len(s) <= Len(t) /\ s = SubSeq(t, 1, Len(s))

\* C18: the steps an iteration of the gameloop has done are always an initial
\* part of: delta time, keys, camera, camera uniforms, buffer update, record
\* count, draw, present; an iteration that has ended has done each of them
\* once, so a draw comes after that iteration's update and count.
C18_FrameStepOrder ==
    /\ IsPrefix(rt_trace, FrameOrder)
    /\ (rt_pc = "time" /\ rt_trace # <<>>) => rt_trace = FrameOrder
    /\ rt_pc = "swap" => rt_trace = SubSeq(FrameOrder, 1, 7)

C18_Witness == rt_pc = "time" /\ rt_trace = FrameOrder /\ keys # <<>>

\* C19: the render thread owns the mutex of the held keys only while it is
\* in the iteration over them, so a key event that waits for the mutex waits
\* for that iteration only.
C19_LockOnlyWhileIterating ==
    /\ keys_lock = "render" => rt_pc = "iter"
    /\ rt_pc \in {"camera", "uniform", "ssbo", "count", "draw", "swap", "time"}
            => keys_lock # "render"

C19_Witness ==
    /\ keys_lock = "render" /\ rt_pc = "iter" /\ rt_i = 1 /\ Len(keys) = 1
    /\ cl_pc = "match" /\ cl_event.type = "KeyboardInput" /\ cl_event.state = "Pressed"

\* C20: in RTSphere and RTTriangle every Vec3a16 field and the material
\* begin at a multiple of 16 bytes, a Vec3a16 takes 16 bytes, the sizes of
\* RTMaterial, RTSphere and RTTriangle are multiples of 16, and record i of
\* the buffer reserved by set_data begins at i times the record size, on a
\* 16-byte boundary.
C20_RecordLayout ==
    /\ Vec3a16Field.size = 16
    /\ \A i \in {2, 3} : FieldOffsets(RTSphereFields, 0)[i] % 16 = 0
    /\ \A i \in 1..7 : FieldOffsets(RTTriangleFields, 0)[i] % 16 = 0
    /\ RTMaterialField.size % 16 = 0
    /\ SizeofRTSphere % 16 = 0
    /\ SizeofRTTriangle % 16 = 0
    /\ gl_buf.size = Len(gl_buf.store) * SizeofRTSphere
    /\ \A i \in 0..(Len(gl_buf.store) - 1) :
          /\ (i * SizeofRTSphere) % 16 = 0
          /\ (i + 1) * SizeofRTSphere <= gl_buf.size

C20_Witness ==
    /\ sb_stage = "linked" /\ Len(gl_buf.store) = MaxRecords
    /\ gl_buf.size = MaxRecords * 96
    /\ FieldOffsets(RTSphereFields, 0) = <<0, 16, 32>>
    /\ FieldOffsets(RTTriangleFields, 0) = <<0, 16, 32, 48, 64, 80, 96>>
    /\ SizeofRTTriangle = 160

\* the three threads of main as owners of its locks
Threads == {"main", "render", "monitor"}

\* thread t is at a lock acquisition that cannot go through in this state
Blocked(t) ==
    CASE t = "main" ->
            \/ cl_pc = "poll" /\ ~MutexFree(health_lock)
            \/ cl_pc = "match" /\ cl_event.type = "KeyboardInput" /\ ~MutexFree(keys_lock)
      [] t = "render" -> rt_pc = "lock" /\ ~MutexFree(keys_lock)
      [] t = "monitor" -> mon_pc = "wlock" /\ ~MutexFree(health_lock)

\* C21: no thread owns the mutex of the held keys and the lock of the health
\* flag together, a thread that owns a lock is never blocked on the other
\* one (so no threads wait for one another), and a lock that is owned is
\* released again unless the process ends first.
C21_NoDeadlock ==
    /\ [](\A t \in Threads :
            /\ ~(keys_lock = t /\ health_lock = t)
            /\ (keys_lock = t \/ health_lock = t) => ~Blocked(t))
    /\ (keys_lock # "none") ~> (keys_lock = "none" \/ ~ProcessAlive)
    /\ (health_lock # "none") ~> (health_lock = "none" \/ ~ProcessAlive)

C21_Witness ==
    /\ Blocked("main") /\ health_lock = "monitor" /\ mon_pc = "write"
    /\ keys # <<>>

\* C22: set_data and update_data given an empty vector return normally: the
\* builder chain and the SSBO do not panic, and an update with no records
\* leaves the buffer as it was.
C22_EmptyVectorAccepted ==
    sb_last.len = 0 =>
        /\ sb_stage # "panicked"
        /\ sb_last.outcome # "none" =>
                (sb_last.outcome = "ok" /\ gl_buf = sb_last.before)

\* the number of triangles of the parts before part k
RECURSIVE TrianglesBefore(_, _)
TrianglesBefore(parts, k) ==
    IF k <= 1 THEN 0
    ELSE TrianglesBefore(parts, k - 1) + (parts[k - 1] \div 3)

\* C23: generate_raytracing_structs returns, for a model of any number of
\* parts, one mesh per part; the range of mesh k begins where the triangles
\* of the parts before it end and its count is the number of triangles of
\* part k (index_count / 3), so the ranges are disjoint, contiguous and cover
\* the triangle vector; parts without triangles included.
C23_MeshRangesPartition ==
    /\ mesh_pc # "panicked"
    /\ mesh_pc = "returned" =>
        /\ Len(meshes) = Len(model_meshes)
        /\ Len(triangles) = TrianglesBefore(model_meshes, Len(model_meshes) + 1)
        /\ \A k \in 1..Len(meshes) :
              /\ meshes[k].start_index = U32(TrianglesBefore(model_meshes, k))
              /\ meshes[k].count = U32(model_meshes[k] \div 3)
              /\ \A j \in 1..Len(triangles) :
                    (triangles[j] = k) <=>
                        /\ TrianglesBefore(model_meshes, k) < j
                        /\ j <= TrianglesBefore(model_meshes, k + 1)

====
